---- MODULE Spec2Model ----
(***************************************************************************)
(* A model of canspec: the schema compiler of src/_convert.py and its      *)
(* command line driver src/canspec.py.                                     *)
(*                                                                         *)
(* Python dictionaries are modelled as sequences of [k, v] records with    *)
(* distinct keys (insertion order is iteration order).  Member names are   *)
(* sequences of one-character strings, because str.rstrip acts on          *)
(* characters; type names are plain strings, they are only compared.       *)
(* A raised exception is a non-empty string in an err field.               *)
(***************************************************************************)
EXTENDS Integers, Sequences, FiniteSets, TLC

VARIABLES
    database,   \* the loaded YAML tree: [structs, messages], two dictionaries
    args,       \* parsed command line: [kcd, hpp], TRUE when the path is given
    pc,         \* position of _main
    err,        \* the exception that ended the run, "" when none
    kcd_file,   \* the --kcd output path: [state, content]
    hpp_file,   \* the --hpp output path: [state, content]
    struct_defs,\* database_to_cpp's merged definition map
    nodes_idx,  \* _topological_sort: index of the next node of `for node in nodes`
    result,     \* _topological_sort: the result list
    stack,      \* _topological_sort: the active calls of explore
    out,        \* database_to_cpp: the text put out so far, as its parts
    header,     \* the generated header in use: type name -> its routines
    shift_ub,   \* what the build makes of `1 << bits` for bits >= 32
    input,      \* the packed value handed to M_deserialize
    decoded,    \* the record M_deserialize(input) returned
    encoded,    \* the packed value serialize(decoded) returned
    redecoded,  \* the record M_deserialize(encoded) returned
    cpc         \* position of the program that uses the header

genvars == <<database, args, pc, err, kcd_file, hpp_file, struct_defs,
             nodes_idx, result, stack, out>>

codecvars == <<header, shift_ub, input, decoded, encoded, redecoded, cpc>>

vars == <<genvars, codecvars>>

(***************************************************************************)
(* Bounds.                                                                 *)
(***************************************************************************)
\* The interpreter's recursion limit, scaled down: a call nested deeper
\* raises RecursionError.
RecursionLimit == 7

(***************************************************************************)
(* Dictionaries.                                                           *)
(***************************************************************************)
Keys(d) == [i \in 1..Len(d) |-> d[i].k]

Has(d, key) == \E i \in 1..Len(d) : d[i].k = key

Get(d, key) == d[CHOOSE i \in 1..Len(d) : d[i].k = key].v

Put(d, key, val) ==
    IF Has(d, key)
    THEN [i \in 1..Len(d) |-> IF d[i].k = key THEN [k |-> key, v |-> val] ELSE d[i]]
    ELSE Append(d, [k |-> key, v |-> val])

Contains(seq, x) == \E i \in 1..Len(seq) : seq[i] = x

(***************************************************************************)
(* The YAML tree.  A member type is a string (a reference, or 'bool') or   *)
(* an inline mapping (a signal).  A definition body is a list (a struct),  *)
(* a mapping with the single key 'enum', or another mapping.               *)
(***************************************************************************)
YStr(name) == [kind |-> "str", name |-> name, size |-> 0, min |-> 0, max |-> 0]

YSignal(size, min, max) ==
    [kind |-> "map", name |-> "", size |-> size, min |-> min, max |-> max]

YList(members) == [kind |-> "list", members |-> members, labels |-> <<>>]

YEnum(labels) == [kind |-> "enum", members |-> <<>>, labels |-> labels]

YOther == [kind |-> "other", members |-> <<>>, labels |-> <<>>]

Mem(name, typ) == [name |-> name, typ |-> typ]

Entry(key, val) == [k |-> key, v |-> val]

(***************************************************************************)
(* CANSignal and CANStruct.                                                *)
(***************************************************************************)
\* CANSignal.__init__
CANSignal(params) ==
    [is_signal |-> TRUE, name |-> "", size |-> params.size,
     min |-> params.min, max |-> params.max]

\* CANStruct._member_type_to_signal: a str stays a str
MemberTypeToSignal(yaml) ==
    IF yaml.kind = "str"
    THEN [is_signal |-> FALSE, name |-> yaml.name, size |-> 0, min |-> 0, max |-> 0]
    ELSE CANSignal(yaml)

\* CANStruct.__init__; err is the CANSemanticException of a mapping that is
\* no enum
CANStruct(name, yaml) ==
    CASE yaml.kind = "list" ->
           [err |-> "", name |-> name, is_enum |-> FALSE,
            struct_members |->
                [i \in 1..Len(yaml.members) |->
                    <<yaml.members[i].name, MemberTypeToSignal(yaml.members[i].typ)>>],
            enum_members |-> <<>>]
      [] yaml.kind = "enum" ->
           [err |-> "", name |-> name, is_enum |-> TRUE,
            struct_members |-> <<>>, enum_members |-> yaml.labels]
      [] OTHER ->
           [err |-> "CANSemanticException", name |-> name, is_enum |-> FALSE,
            struct_members |-> <<>>, enum_members |-> <<>>]

RECURSIVE LoadSection(_, _, _)
\* The loops of database_to_kcd and database_to_cpp that fill struct_defs
\* from one section; the first bad body raises.
LoadSection(section, i, acc) ==
    IF acc.err # "" \/ i > Len(section) THEN acc
    ELSE LET s == CANStruct(section[i].k, section[i].v)
         IN  IF s.err # ""
             THEN [acc EXCEPT !.err = s.err]
             ELSE LoadSection(section, i + 1,
                              [acc EXCEPT !.defs = Put(acc.defs, section[i].k, s)])

\* struct_defs: the structs section, then the messages section
LoadStructDefs(db) ==
    LoadSection(db.messages, 1,
                LoadSection(db.structs, 1, [err |-> "", defs |-> <<>>]))

\* CANStruct.dependencies
Dependencies(self) ==
    IF self.is_enum THEN <<>>
    ELSE LET refs == SelectSeq(self.struct_members,
                               LAMBDA m : ~m[2].is_signal /\ m[2].name # "bool")
         IN  [i \in 1..Len(refs) |-> refs[i][2].name]

(***************************************************************************)
(* Layout calculator.                                                      *)
(***************************************************************************)
RECURSIVE CeilLog2From(_, _)
CeilLog2From(n, k) == IF 2^k >= n THEN k ELSE CeilLog2From(n, k + 1)

\* math.ceil(math.log2(n)) for n >= 1: the least k with 2^k >= n (log2 is
\* exact on the powers of two, and no other n below 2^30 rounds to an integer)
CeilLog2(n) == CeilLog2From(n, 0)

RECURSIVE Size(_, _, _)
RECURSIVE SizeMembers(_, _, _, _, _)
\* CANStruct.size; depth counts the nested calls
Size(self, defs, depth) ==
    IF depth > RecursionLimit THEN [err |-> "RecursionError", v |-> 0]
    ELSE IF self.is_enum
    THEN IF Len(self.enum_members) = 0
         THEN [err |-> "ValueError", v |-> 0]
         ELSE [err |-> "", v |-> CeilLog2(Len(self.enum_members))]
    ELSE SizeMembers(self, defs, 1, 0, depth)

\* the loop of CANStruct.size from member i on: a member that is no
\* CANSignal is looked up in struct_defs, 'bool' like any other name
SizeMembers(self, defs, i, total, depth) ==
    IF i > Len(self.struct_members) THEN [err |-> "", v |-> total]
    ELSE LET member == self.struct_members[i][2]
         IN  IF member.is_signal
             THEN SizeMembers(self, defs, i + 1, total + member.size, depth)
             ELSE IF ~Has(defs, member.name)
             THEN [err |-> "KeyError", v |-> 0]
             ELSE LET s == Size(Get(defs, member.name), defs, depth + 1)
                  IN  IF s.err # "" THEN s
                      ELSE SizeMembers(self, defs, i + 1, total + s.v, depth)

(***************************************************************************)
(* Bus-descriptor emitter.                                                 *)
(***************************************************************************)
Digits == <<"0", "1", "2", "3", "4", "5", "6", "7", "8", "9">>

RECURSIVE Str(_)
\* str(n), and {n} in an f-string, of an int n >= 0: its decimal digits
Str(n) ==
    IF n < 10 THEN <<Digits[n + 1]>> ELSE Str(n \div 10) \o <<Digits[(n % 10) + 1]>>

\* KCDMessageSerializer.__init__
NewSerializer == [err |-> "", bit_pos |-> 0, contents |-> <<>>]

\* a slip of KCDMessageSerializer.write: the bit position stays
SerializerWriteInPlace(serializer, xml, size) ==
    [serializer EXCEPT !.contents = Append(@, xml)]

\* KCDMessageSerializer.write
SerializerWrite(serializer, xml, size) ==
    [serializer EXCEPT !.contents = Append(@, xml), !.bit_pos = @ + size]

RECURSIVE RStrip(_)
\* str.rstrip('_'): every trailing '_' is removed
RStrip(s) ==
    IF Len(s) > 0 /\ s[Len(s)] = "_" THEN RStrip(SubSeq(s, 1, Len(s) - 1)) ELSE s

\* a Signal node: its name, offset and length attributes and the tag of its
\* child (Value or LabelSet); offset and length are kept as the integers
\* whose str() the node carries
SignalXML(name, offset, length, child) ==
    [name |-> name, offset |-> offset, length |-> length, child |-> child]

\* CANSignal.serialize_kcd; slope() divides by 2 ** size - 1
SignalSerializeKcd(self, serializer, name) ==
    IF self.size = 0
    THEN [serializer EXCEPT !.err = "ZeroDivisionError"]
    ELSE SerializerWrite(serializer,
                         SignalXML(name, serializer.bit_pos, self.size, "Value"),
                         self.size)

RaiseIn(serializer, e) == [serializer EXCEPT !.err = e]

RECURSIVE SerializeMembersKcd(_, _, _, _, _)
RECURSIVE SerializeMemberLoop(_, _, _, _, _, _)
\* CANStruct.serialize_members_kcd
SerializeMembersKcd(self, serializer, defs, name_base, depth) ==
    IF depth > RecursionLimit THEN RaiseIn(serializer, "RecursionError")
    ELSE IF self.is_enum
    THEN LET sz == Size(self, <<>>, depth + 1)
         IN  IF sz.err # "" THEN RaiseIn(serializer, sz.err)
             ELSE SerializerWrite(serializer,
                                  SignalXML(RStrip(name_base), serializer.bit_pos,
                                            sz.v, "LabelSet"),
                                  sz.v)
    ELSE SerializeMemberLoop(self, 1, serializer, defs, name_base, depth)

\* the loop of serialize_members_kcd over struct_members, from member i on
SerializeMemberLoop(self, i, serializer, defs, name_base, depth) ==
    IF serializer.err # "" \/ i > Len(self.struct_members) THEN serializer
    ELSE LET member == self.struct_members[i]
             next ==
                 IF member[2].is_signal
                 THEN SignalSerializeKcd(member[2], serializer, name_base \o member[1])
                 ELSE IF member[2].name = "bool"
                 THEN SerializerWrite(serializer,
                                      SignalXML(name_base \o member[1],
                                                serializer.bit_pos, 1, "Value"),
                                      1)
                 ELSE IF ~Has(defs, member[2].name)
                 THEN RaiseIn(serializer, "KeyError")
                 ELSE SerializeMembersKcd(Get(defs, member[2].name), serializer, defs,
                                          name_base \o member[1] \o <<"_">>, depth + 1)
         IN  SerializeMemberLoop(self, i + 1, next, defs, name_base, depth)

\* a slip of serialize_message_kcd: the id attribute counts from one
SerializeMessageKcdFromOne(self, defs, id) ==
    LET serializer == SerializeMembersKcd(self, NewSerializer, defs, <<>>, 1)
    IN  [err |-> serializer.err, id |-> Str(id + 1), name |-> self.name,
         children |-> serializer.contents]

\* CANStruct.serialize_message_kcd: a Message node with its id and name
\* attributes and the Signal nodes the serializer collected
SerializeMessageKcd(self, defs, id) ==
    LET serializer == SerializeMembersKcd(self, NewSerializer, defs, <<>>, 1)
    IN  [err |-> serializer.err, id |-> Str(id), name |-> self.name,
         children |-> serializer.contents]

RECURSIVE KcdMessages(_, _, _, _)
\* the enumerate loop of database_to_kcd over database['messages'].keys()
KcdMessages(names, defs, i, messages) ==
    IF i > Len(names) THEN [err |-> "", messages |-> messages]
    ELSE LET m == SerializeMessageKcd(Get(defs, names[i]), defs, i - 1)
         IN  IF m.err # "" THEN [err |-> m.err, messages |-> <<>>]
             ELSE KcdMessages(names, defs, i + 1, Append(messages, m))

\* database_to_kcd: the Message nodes of the Bus node, or the exception
DatabaseToKcd(db) ==
    LET loaded == LoadStructDefs(db)
    IN  IF loaded.err # "" THEN [err |-> loaded.err, messages |-> <<>>]
        ELSE KcdMessages(Keys(db.messages), loaded.defs, 1, <<>>)

(***************************************************************************)
(* Codec emitter.  The generated text is kept as its parts: per type the   *)
(* record fields and the statements of the decode and encode routines.     *)
(***************************************************************************)
Reverse(seq) == [i \in 1..Len(seq) |-> seq[Len(seq) + 1 - i]]

\* one statement of a generated routine: read(buffer, bits) into, or
\* write(ser, bits, ...) from, the field `name`
Stmt(name, kind, typ, bits, signal) ==
    [name |-> name, kind |-> kind, typ |-> typ, bits |-> bits,
     min |-> signal.min, max |-> signal.max]

RECURSIVE CppStatements(_, _, _, _)
\* the loop of serialize_cpp over struct_members that prints the body of
\* <name>_deserialize, from member i on
CppStatements(self, defs, i, acc) ==
    IF i > Len(self.struct_members) THEN [err |-> "", stmts |-> acc]
    ELSE LET name == self.struct_members[i][1]
             typ == self.struct_members[i][2]
         IN  IF typ.is_signal
             THEN IF typ.size = 0
                  THEN [err |-> "ZeroDivisionError", stmts |-> <<>>]
                  ELSE CppStatements(self, defs, i + 1,
                           Append(acc, Stmt(name, "signal", "double", typ.size, typ)))
             ELSE IF typ.name = "bool"
             THEN CppStatements(self, defs, i + 1,
                      Append(acc, Stmt(name, "bool", "bool", 1, typ)))
             ELSE IF ~Has(defs, typ.name)
             THEN [err |-> "KeyError", stmts |-> <<>>]
             ELSE LET sz == Size(Get(defs, typ.name), defs, 1)
                  IN  IF sz.err # "" THEN [err |-> sz.err, stmts |-> <<>>]
                      ELSE CppStatements(self, defs, i + 1,
                               Append(acc, Stmt(name, "ref", typ.name, sz.v, typ)))

\* CANStruct.serialize_cpp: decode reads in declared order, encode writes
\* over reversed(self.struct_members)
SerializeCpp(self, defs) ==
    IF self.is_enum
    THEN [err |-> "", name |-> self.name, is_enum |-> TRUE,
          labels |-> self.enum_members, reads |-> <<>>, writes |-> <<>>]
    ELSE LET body == CppStatements(self, defs, 1, <<>>)
         IN  [err |-> body.err, name |-> self.name, is_enum |-> FALSE,
              labels |-> <<>>, reads |-> body.stmts, writes |-> Reverse(body.stmts)]

\* the MessageDiscriminator enumeration of database_to_cpp
MessageDiscriminator(db) ==
    LET names == Keys(db.messages)
    IN  [index \in 1..Len(names) |-> [name |-> names[index], value |-> Str(index - 1)]]

RECURSIVE EmitTypes(_, _, _, _)
\* the loop of database_to_cpp over struct_order
EmitTypes(struct_order, defs, i, types) ==
    IF i > Len(struct_order) THEN [err |-> "", types |-> types]
    ELSE IF struct_order[i] = "bool" THEN EmitTypes(struct_order, defs, i + 1, types)
    ELSE LET t == SerializeCpp(Get(defs, struct_order[i]), defs)
         IN  IF t.err # "" THEN [err |-> t.err, types |-> <<>>]
             ELSE EmitTypes(struct_order, defs, i + 1, Append(types, t))

(***************************************************************************)
(* _topological_sort, one call or return of explore per step.              *)
(***************************************************************************)
\* a slip of result.append(node): the node is put first
ResultPrepend(res, node) == <<node>> \o res

\* result.append(node)
ResultAppend(res, node) == Append(res, node)

\* a call explore(node): it returns at once when node is in result, else
\* edges(node) looks the node up in struct_defs and the call stays active
ExploreCall(node, res, stk, defs) ==
    IF Len(stk) >= RecursionLimit THEN [err |-> "RecursionError", stack |-> stk]
    ELSE IF Contains(res, node) THEN [err |-> "", stack |-> stk]
    ELSE IF ~Has(defs, node) THEN [err |-> "KeyError", stack |-> stk]
    ELSE [err |-> "",
          stack |-> Append(stk, [node |-> node,
                                 edges |-> Dependencies(Get(defs, node)),
                                 i |-> 1])]

Top == stack[Len(stack)]

Pop(stk) == SubSeq(stk, 1, Len(stk) - 1)

Untouched == [state |-> "untouched", content |-> <<>>]

Truncated == [state |-> "truncated", content |-> <<>>]

Written(content) == [state |-> "written", content |-> content]

NoOut == [discriminator |-> <<>>, types |-> <<>>]

\* an exception leaves _main: the run is over
Raise(e) == pc' = "raised" /\ err' = e

(***************************************************************************)
(* _main.                                                                  *)
(***************************************************************************)
\* argument check and load of the input file
Start ==
    /\ pc = "start"
    /\ pc' = IF ~(args.kcd \/ args.hpp) THEN "exit" ELSE "kcd"
    /\ UNCHANGED <<database, args, err, kcd_file, hpp_file, struct_defs,
                   nodes_idx, result, stack, out>>
    /\ UNCHANGED codecvars

\* `if parsed[kcd]`: open(.., 'w') creates or truncates the file, then
\* database_to_kcd runs, then its text is written
WriteKcd ==
    /\ pc = "kcd"
    /\ IF args.kcd
       THEN LET kcd == DatabaseToKcd(database)
            IN  IF kcd.err # ""
                THEN /\ kcd_file' = Truncated
                     /\ Raise(kcd.err)
                ELSE /\ kcd_file' = Written(kcd.messages)
                     /\ pc' = "hpp"
                     /\ err' = err
       ELSE /\ pc' = "hpp"
            /\ UNCHANGED <<err, kcd_file>>
    /\ UNCHANGED <<database, args, hpp_file, struct_defs, nodes_idx, result,
                   stack, out>>
    /\ UNCHANGED codecvars

\* `if parsed[hpp]`: open(.., 'w'), then database_to_cpp up to its call of
\* _topological_sort
BeginCpp ==
    /\ pc = "hpp"
    /\ IF args.hpp
       THEN LET loaded == LoadStructDefs(database)
            IN  /\ hpp_file' = Truncated
                /\ IF loaded.err # ""
                   THEN /\ Raise(loaded.err)
                        /\ UNCHANGED <<struct_defs, out>>
                   ELSE /\ struct_defs' = loaded.defs
                        /\ out' = [out EXCEPT !.discriminator =
                                                  MessageDiscriminator(database)]
                        /\ pc' = "sort"
                        /\ err' = err
       ELSE /\ pc' = "done"
            /\ UNCHANGED <<err, hpp_file, struct_defs, out>>
    /\ nodes_idx' = 1
    /\ result' = <<>>
    /\ stack' = <<>>
    /\ UNCHANGED <<database, args, kcd_file>>
    /\ UNCHANGED codecvars

\* `for node in nodes: explore(node)`
SortLoop ==
    /\ pc = "sort"
    /\ stack = <<>>
    /\ nodes_idx <= Len(struct_defs)
    /\ LET call == ExploreCall(Keys(struct_defs)[nodes_idx], result, stack, struct_defs)
       IN  /\ stack' = call.stack
           /\ IF call.err # "" THEN Raise(call.err) ELSE UNCHANGED <<pc, err>>
    /\ nodes_idx' = nodes_idx + 1
    /\ UNCHANGED <<database, args, kcd_file, hpp_file, struct_defs, result, out>>
    /\ UNCHANGED codecvars

\* `for edge in edges(node): explore(edge)`
ExploreEdge ==
    /\ pc = "sort"
    /\ stack # <<>>
    /\ Top.i <= Len(Top.edges)
    /\ LET call == ExploreCall(Top.edges[Top.i], result,
                               [stack EXCEPT ![Len(stack)].i = @ + 1], struct_defs)
       IN  /\ stack' = call.stack
           /\ IF call.err # "" THEN Raise(call.err) ELSE UNCHANGED <<pc, err>>
    /\ UNCHANGED <<database, args, kcd_file, hpp_file, struct_defs, nodes_idx,
                   result, out>>
    /\ UNCHANGED codecvars

\* after the loop over the edges: result.append(node), and explore returns
ExploreReturn ==
    /\ pc = "sort"
    /\ stack # <<>>
    /\ Top.i > Len(Top.edges)
    /\ result' = ResultAppend(result, Top.node)
    /\ stack' = Pop(stack)
    /\ UNCHANGED <<database, args, pc, err, kcd_file, hpp_file, struct_defs,
                   nodes_idx, out>>
    /\ UNCHANGED codecvars

\* _topological_sort returns; database_to_cpp emits every type of
\* struct_order and _main writes the text
EmitCpp ==
    /\ pc = "sort"
    /\ stack = <<>>
    /\ nodes_idx > Len(struct_defs)
    /\ LET emitted == EmitTypes(result, struct_defs, 1, <<>>)
       IN  IF emitted.err # ""
           THEN /\ Raise(emitted.err)
                /\ UNCHANGED <<out, hpp_file>>
           ELSE /\ out' = [out EXCEPT !.types = emitted.types]
                /\ hpp_file' = Written(out')
                /\ pc' = "done"
                /\ err' = err
    /\ UNCHANGED <<database, args, kcd_file, struct_defs, nodes_idx, result, stack>>
    /\ UNCHANGED codecvars

Next ==
    \/ Start
    \/ WriteKcd
    \/ BeginCpp
    \/ SortLoop
    \/ ExploreEdge
    \/ ExploreReturn
    \/ EmitCpp

(***************************************************************************)
(* The inputs: bounded families of schemas.                                *)
(***************************************************************************)
\* members per generated message body
MaxMembers == 2

\* labels of the larger enum of the layout family
EnumLabels == 3

SeqsUpTo(S, n) == UNION {[1..k -> S] : k \in 0..n}

Labels(n) == [i \in 1..n |-> "L"]

Sig8 == YSignal(8, 0, 255)

Sig4 == YSignal(4, 0, 10)

\* a struct body holding one signal and one reference per name of refs
RefBody(refs) ==
    YList(<<Mem(<<"v">>, Sig8)>> \o [i \in 1..Len(refs) |-> Mem(<<"r">>, YStr(refs[i]))])

\* the sequences over the names of S, in the order of `order`
SubSeqsOf(order, S) ==
    {SelectSeq(order, LAMBDA n : n \in T) : T \in SUBSET S}

\* dependency graphs over the structs A, B, C and the message M; C may also
\* name X, which nothing defines
GraphDatabases ==
    {[structs |-> <<Entry("A", RefBody(a)), Entry("B", RefBody(b)),
                    Entry("C", RefBody(c))>>,
      messages |-> <<Entry("M", RefBody(m))>>] :
        a \in SubSeqsOf(<<"B", "C">>, {"B", "C"}),
        b \in SubSeqsOf(<<"C", "A">>, {"A", "C"}),
        c \in SubSeqsOf(<<"A", "B", "X">>, {"A", "B", "X"}),
        m \in SubSeqsOf(<<"A", "B", "C">>, {"A", "B", "C"})}

\* the types the layout family's messages draw their members from
LayoutStructs ==
    <<Entry("P", YList(<<Mem(<<"x">>, Sig4), Mem(<<"y">>, Sig8)>>)),
      Entry("E", YEnum(Labels(EnumLabels))),
      Entry("One", YEnum(Labels(1))),
      Entry("Q", YList(<<Mem(<<"p">>, YStr("P")), Mem(<<"e", "_">>, YStr("E"))>>)),
      Entry("F", YList(<<Mem(<<"f">>, YStr("bool")), Mem(<<"x">>, Sig4)>>))>>

LayoutMembers ==
    {Mem(<<"a">>, Sig8), Mem(<<"b">>, Sig4), Mem(<<"f">>, YStr("bool")),
     Mem(<<"p", "o", "s">>, YStr("P")), Mem(<<"m", "_">>, YStr("E")),
     Mem(<<"o">>, YStr("One")), Mem(<<"q">>, YStr("Q")), Mem(<<"n">>, YStr("F"))}

\* two messages over the layout types: M with any members, N with one
LayoutDatabases ==
    {[structs |-> LayoutStructs,
      messages |-> <<Entry("M", YList(m)), Entry("N", YList(<<n>>))>>] :
        m \in SeqsUpTo(LayoutMembers, MaxMembers),
        n \in {Mem(<<"a">>, Sig8), Mem(<<"q">>, YStr("Q"))}}

\* the messages section in every order, beside a struct of a message's name
OrderDatabases ==
    {[structs |-> <<Entry("S", YList(<<Mem(<<"a">>, Sig8)>>)),
                    Entry("Pong", YList(<<>>))>>,
      messages |-> [i \in 1..Len(names) |->
                       Entry(names[i], YList(<<Mem(<<"s">>, YStr("S"))>>))]] :
        names \in {q \in SeqsUpTo({"Ping", "Pong", "Pang"}, 3) :
                      \A i, j \in 1..Len(q) : i # j => q[i] # q[j]}}

\* single schemas: a mapping that is no enum, an enum without labels, a
\* signal of size 0, a schema that defines 'bool' itself, an enum message
OddDatabases ==
    {[structs |-> <<Entry("S", YOther)>>,
      messages |-> <<Entry("M", YList(<<Mem(<<"a">>, Sig8)>>))>>],
     [structs |-> <<Entry("E", YEnum(<<>>))>>,
      messages |-> <<Entry("M", YList(<<Mem(<<"e">>, YStr("E"))>>))>>],
     [structs |-> <<>>,
      messages |-> <<Entry("M", YList(<<Mem(<<"z">>, YSignal(0, 0, 1))>>))>>],
     [structs |-> <<Entry("bool", YEnum(Labels(2))),
                    Entry("F", YList(<<Mem(<<"f">>, YStr("bool"))>>))>>,
      messages |-> <<Entry("M", YList(<<Mem(<<"n">>, YStr("F"))>>))>>],
     [structs |-> <<>>,
      messages |-> <<Entry("M", YEnum(Labels(2)))>>]}

Databases == GraphDatabases \cup LayoutDatabases \cup OrderDatabases \cup OddDatabases

Init ==
    /\ database \in Databases
    /\ args \in [kcd : BOOLEAN, hpp : BOOLEAN]
    /\ pc = "start"
    /\ err = ""
    /\ kcd_file = Untouched
    /\ hpp_file = Untouched
    /\ struct_defs = <<>>
    /\ nodes_idx = 1
    /\ result = <<>>
    /\ stack = <<>>
    /\ out = NoOut
    /\ header = <<>>
    /\ shift_ub = "wrap"
    /\ input = {}
    /\ decoded = <<>>
    /\ encoded = {}
    /\ redecoded = <<>>
    /\ cpc = "off"

Spec == Init /\ [][Next]_vars

(***************************************************************************)
(* Unbounded naturals: little-endian sequences of limbs below Limb, the    *)
(* most significant limb not 0; <<>> is 0.  They carry the 64-bit buffers' *)
(* values and the significands of the doubles of the generated code.       *)
(***************************************************************************)
LimbBits == 15

Limb == 2^LimbBits

RECURSIVE BNorm(_)
BNorm(a) ==
    IF Len(a) > 0 /\ a[Len(a)] = 0 THEN BNorm(SubSeq(a, 1, Len(a) - 1)) ELSE a

RECURSIVE BFromInt(_)
BFromInt(n) == IF n = 0 THEN <<>> ELSE <<n % Limb>> \o BFromInt(n \div Limb)

BDigit(a, i) == IF i <= Len(a) THEN a[i] ELSE 0

RECURSIVE BAddFrom(_, _, _, _)
BAddFrom(a, b, i, carry) ==
    IF i > Len(a) /\ i > Len(b)
    THEN IF carry = 0 THEN <<>> ELSE <<carry>>
    ELSE LET s == BDigit(a, i) + BDigit(b, i) + carry
         IN  <<s % Limb>> \o BAddFrom(a, b, i + 1, s \div Limb)

BAdd(a, b) == BAddFrom(a, b, 1, 0)

RECURSIVE BSubFrom(_, _, _, _)
BSubFrom(a, b, i, borrow) ==
    IF i > Len(a) THEN <<>>
    ELSE LET s == a[i] - BDigit(b, i) - borrow
         IN  IF s < 0 THEN <<s + Limb>> \o BSubFrom(a, b, i + 1, 1)
             ELSE <<s>> \o BSubFrom(a, b, i + 1, 0)

\* a - b, for a >= b
BSub(a, b) == BNorm(BSubFrom(a, b, 1, 0))

RECURSIVE BCmpFrom(_, _, _)
BCmpFrom(a, b, i) ==
    IF i = 0 THEN 0
    ELSE IF a[i] < b[i] THEN -1
    ELSE IF a[i] > b[i] THEN 1
    ELSE BCmpFrom(a, b, i - 1)

\* -1, 0, 1 as a < b, a = b, a > b
BCmp(a, b) ==
    IF Len(a) < Len(b) THEN -1
    ELSE IF Len(a) > Len(b) THEN 1
    ELSE BCmpFrom(a, b, Len(a))

RECURSIVE BMulSmallFrom(_, _, _, _)
BMulSmallFrom(a, d, i, carry) ==
    IF i > Len(a)
    THEN IF carry = 0 THEN <<>> ELSE <<carry>>
    ELSE LET s == a[i] * d + carry
         IN  <<s % Limb>> \o BMulSmallFrom(a, d, i + 1, s \div Limb)

\* a * d, for d < Limb
BMulSmall(a, d) == IF d = 0 THEN <<>> ELSE BMulSmallFrom(a, d, 1, 0)

BShlLimbs(a, n) == IF a = <<>> THEN <<>> ELSE [i \in 1..n |-> 0] \o a

RECURSIVE BMulFrom(_, _, _)
BMulFrom(a, b, i) ==
    IF i > Len(b) THEN <<>>
    ELSE BAdd(BShlLimbs(BMulSmall(a, b[i]), i - 1), BMulFrom(a, b, i + 1))

BMul(a, b) == BMulFrom(a, b, 1)

\* a * 2^k
BShl(a, k) == BShlLimbs(BMulSmall(a, 2^(k % LimbBits)), k \div LimbBits)

RECURSIVE BDivSmallFrom(_, _, _, _)
BDivSmallFrom(a, d, i, rem) ==
    IF i = 0 THEN <<>>
    ELSE LET cur == rem * Limb + a[i]
         IN  BDivSmallFrom(a, d, i - 1, cur % d) \o <<cur \div d>>

\* a \div 2^k
BShr(a, k) ==
    LET drop == k \div LimbBits
        rest == IF drop >= Len(a) THEN <<>> ELSE SubSeq(a, drop + 1, Len(a))
    IN  BNorm(BDivSmallFrom(rest, 2^(k % LimbBits), Len(rest), 0))

RECURSIVE IntBitLen(_)
IntBitLen(n) == IF n = 0 THEN 0 ELSE 1 + IntBitLen(n \div 2)

\* the number of bits of a
BitLen(a) ==
    IF a = <<>> THEN 0 ELSE LimbBits * (Len(a) - 1) + IntBitLen(a[Len(a)])

\* bit i of a, bit 0 the least significant
BBit(a, i) == (BDigit(a, i \div LimbBits + 1) \div 2^(i % LimbBits)) % 2

RECURSIVE QFix(_, _, _)
\* the largest digit q <= qhat with d * q <= r
QFix(r, d, qhat) ==
    IF BCmp(BMulSmall(d, qhat), r) > 0 THEN QFix(r, d, qhat - 1) ELSE qhat

\* the quotient digit of r by d, for r < d * Limb and d's top limb at least
\* Limb / 2: the estimate from the leading limbs is at most 2 too large
QDigit(r, d) ==
    LET n == Len(d)
        est == (BDigit(r, n + 1) * Limb + BDigit(r, n)) \div d[n]
    IN  QFix(r, d, IF est > Limb - 1 THEN Limb - 1 ELSE est)

RECURSIVE BDivLimbs(_, _, _, _, _)
\* long division of a by d, from limb j of a down
BDivLimbs(a, d, j, q, r) ==
    IF j = 0 THEN [q |-> BNorm(q), r |-> r]
    ELSE LET r2 == BNorm(<<a[j]>> \o r)
             qd == QDigit(r2, d)
         IN  BDivLimbs(a, d, j - 1, <<qd>> \o q, BSub(r2, BMulSmall(d, qd)))

\* quotient and remainder of a by b > 0
BDivMod(a, b) ==
    LET s == LimbBits - IntBitLen(b[Len(b)])
        a2 == BShl(a, s)
        d == BDivLimbs(a2, BShl(b, s), Len(a2), <<>>, <<>>)
    IN  [q |-> d.q, r |-> BShr(d.r, s)]

(***************************************************************************)
(* IEEE-754 binary64 values that are not negative: [m, e] is m * 2^e with  *)
(* m odd and below 2^53, or 0.  Every operation rounds its exact result to *)
(* nearest, ties to even.  Values stay far from overflow and underflow.    *)
(***************************************************************************)
MantissaBits == 53

RECURSIVE TrailingZeroBits(_)
TrailingZeroBits(n) == IF n % 2 = 1 THEN 0 ELSE 1 + TrailingZeroBits(n \div 2)

RECURSIVE TrailingZeros(_, _)
\* the number of 0 bits below the lowest 1 bit of a # 0, from limb j on
TrailingZeros(a, j) ==
    IF a[j] = 0 THEN LimbBits + TrailingZeros(a, j + 1) ELSE TrailingZeroBits(a[j])

FNorm(p, e) ==
    IF p = <<>> THEN [m |-> <<>>, e |-> 0]
    ELSE LET tz == TrailingZeros(p, 1)
         IN  [m |-> BShr(p, tz), e |-> e + tz]

\* the double nearest to p * 2^e
FRound(p, e) ==
    LET n == BitLen(p)
    IN  IF n <= MantissaBits THEN FNorm(p, e)
        ELSE LET s == n - MantissaBits
                 q == BShr(p, s)
                 c == BCmp(BSub(p, BShl(q, s)), BShl(<<1>>, s - 1))
                 up == c > 0 \/ (c = 0 /\ BBit(q, 0) = 1)
             IN  FNorm(IF up THEN BAdd(q, <<1>>) ELSE q, e + s)

FMul(x, y) == FRound(BMul(x.m, y.m), x.e + y.e)

\* x / y for y > 0: the quotient to 55 bits or more, and a sticky bit
FDiv(x, y) ==
    LET k == IF MantissaBits + 2 + BitLen(y.m) > BitLen(x.m)
             THEN MantissaBits + 2 + BitLen(y.m) - BitLen(x.m) ELSE 0
        d == BDivMod(BShl(x.m, k), y.m)
        sticky == IF d.r = <<>> THEN <<>> ELSE <<1>>
    IN  IF x.m = <<>> THEN x
        ELSE FRound(BAdd(BShl(d.q, 1), sticky), x.e - y.e - k - 1)

FAdd(x, y) ==
    LET e == IF x.e < y.e THEN x.e ELSE y.e
    IN  FRound(BAdd(BShl(x.m, x.e - e), BShl(y.m, y.e - e)), e)

\* x - y, for x >= y
FSub(x, y) ==
    LET e == IF x.e < y.e THEN x.e ELSE y.e
    IN  FRound(BSub(BShl(x.m, x.e - e), BShl(y.m, y.e - e)), e)

\* the conversion of an integer to double
FFromNat(p) == FRound(p, 0)

\* the conversion of a double to an unsigned integer: the fraction is cut
FTrunc(x) == IF x.e >= 0 THEN BShl(x.m, x.e) ELSE BShr(x.m, -x.e)

(***************************************************************************)
(* The reference graph of a definition map.                                *)
(***************************************************************************)
Names(defs) == {defs[i].k : i \in 1..Len(defs)}

Range(seq) == {seq[i] : i \in 1..Len(seq)}

\* the names a definition refers to ('bool' apart)
Refs(defs, n) == IF Has(defs, n) THEN Range(Dependencies(Get(defs, n))) ELSE {}

RECURSIVE ReachSet(_, _, _)
ReachSet(defs, frontier, seen) ==
    LET new == UNION {Refs(defs, n) : n \in frontier} \ seen
    IN  IF new = {} THEN seen ELSE ReachSet(defs, new, seen \cup new)

\* the names reached from n over one reference or more
Reach(defs, n) == ReachSet(defs, {n}, {})

Acyclic(defs) == \A n \in Names(defs) : n \notin Reach(defs, n)

Resolved(defs) == \A n \in Names(defs) : Refs(defs, n) \subseteq Names(defs)

IndexOf(seq, x) == CHOOSE i \in 1..Len(seq) : seq[i] = x

\* _topological_sort has returned its list to database_to_cpp
SortReturned ==
    /\ args.hpp
    /\ pc \in {"sort", "done"}
    /\ stack = <<>>
    /\ nodes_idx > Len(struct_defs)

(***************************************************************************)
(* C1.                                                                     *)
(***************************************************************************)
TypeNames(types) == [i \in 1..Len(types) |-> types[i].name]

\* C1: for an acyclic schema whose references all resolve, the list that
\* _topological_sort returns holds every definition name exactly once, and
\* every referenced name stands before the name that refers to it; the
\* types database_to_cpp emits stand in that order.
C1_SortOrdersDependencies ==
    (SortReturned /\ Acyclic(struct_defs) /\ Resolved(struct_defs)) =>
        /\ Range(result) = Names(struct_defs)
        /\ Len(result) = Len(struct_defs)
        /\ \A a \in Names(struct_defs) : \A b \in Refs(struct_defs, a) :
               IndexOf(result, b) < IndexOf(result, a)
        /\ pc = "done" =>
               /\ TypeNames(out.types) = SelectSeq(result, LAMBDA n : n # "bool")
               /\ \A i \in 1..Len(out.types) :
                      \A b \in Refs(struct_defs, out.types[i].name) :
                          \E j \in 1..(i - 1) : out.types[j].name = b

\* C1 witness: the sort has returned on a diamond (M refers to A and B, both
\* refer to C) whose keys list the dependents first
C1_Witness ==
    /\ SortReturned
    /\ pc = "done"
    /\ Acyclic(struct_defs) /\ Resolved(struct_defs)
    /\ Refs(struct_defs, "M") = {"A", "B"}
    /\ Refs(struct_defs, "A") = {"C"}
    /\ Refs(struct_defs, "B") = {"C"}
    /\ result = <<"C", "A", "B", "M">>

(***************************************************************************)
(* C2.                                                                     *)
(***************************************************************************)
\* C2: on a schema whose reference graph has a cycle the traversal never
\* enters a node that is still in progress, and the run ends with a cycle
\* error.
C2_CycleDetected ==
    /\ \A i, j \in 1..Len(stack) : i # j => stack[i].node # stack[j].node
    /\ (pc = "raised" /\ stack # <<>> /\ ~Acyclic(struct_defs)) =>
           err = "CyclicDependencyError"

(***************************************************************************)
(* The generated C++ at work.  A uint64_t is the set of its 1 bits, bit 0  *)
(* the least significant.                                                  *)
(***************************************************************************)
\* the width of uint64_t
WordBits == 64

\* the width of int, the type of the literal 1 in `1 << bits`
IntBits == 32

Word == 0..(WordBits - 1)

RECURSIVE LimbOfBits(_, _, _)
LimbOfBits(bits, j, k) ==
    IF k = LimbBits THEN 0
    ELSE (IF LimbBits * (j - 1) + k \in bits THEN 2^k ELSE 0) + LimbOfBits(bits, j, k + 1)

\* the value of a uint64_t
BFromBits(bits) ==
    BNorm([j \in 1..(WordBits \div LimbBits + 1) |-> LimbOfBits(bits, j, 0)])

\* the uint64_t of a value below 2^64
BToBits(a) == {i \in Word : BBit(a, i) = 1}

\* (1 << bits) - 1 in int, converted to uint64_t.  bits = 31 overflows int
\* and wraps; bits >= 32 is undefined: the shift count is taken modulo 32
\* ("wrap": the x86 shift instruction) or the shift gives 0 and the
\* difference -1 ("zero": a folded constant, the ARM shift instruction)
ReadMask(bits, ub) ==
    IF bits < IntBits THEN 0..(bits - 1)
    ELSE IF ub = "wrap" THEN 0..((bits % IntBits) - 1)
    ELSE Word

\* read(buffer, bits): [res, buffer]
Read(buf, bits, ub) ==
    [res |-> buf \cap ReadMask(bits, ub),
     buffer |-> {i - bits : i \in {j \in buf : j >= bits}}]

\* write(buffer, bits, data)
Write(buf, bits, bdata) ==
    {i + bits : i \in {j \in buf : j + bits < WordBits}} \cup bdata

\* CANSignal.slope: an int divided by an int, correctly rounded; its repr in
\* the C++ text reads back as the same double
Slope(stmt) ==
    FDiv(FFromNat(BFromInt(stmt.max - stmt.min)),
         FFromNat(BSub(BShl(<<1>>, stmt.bits), <<1>>)))

\* `(double)read(buffer, n) * slope + min`
SignalDecode(stmt, raw) ==
    FAdd(FMul(FFromNat(BFromBits(raw)), Slope(stmt)), FFromNat(BFromInt(stmt.min)))

\* `(data.name - min) / slope`, passed as the uint64_t data of write
SignalEncode(stmt, value) ==
    BToBits(FTrunc(FDiv(FSub(value, FFromNat(BFromInt(stmt.min))), Slope(stmt))))

\* `(Name)buffer`: a scoped enum is an int
EnumDeserialize(buf) == buf \cap (0..(IntBits - 1))

\* `(uint64_t)data` of a scoped enum: the int is sign-extended
EnumSerialize(value) ==
    IF IntBits - 1 \in value THEN value \cup (IntBits..(WordBits - 1)) ELSE value

\* bool_deserialize
BoolDeserialize(buf) == buf # {}

\* serialize(bool)
BoolSerialize(value) == IF value THEN {0} ELSE {}

RECURSIVE Deserialize(_, _, _, _)
RECURSIVE DeserializeFrom(_, _, _, _, _, _)
\* <name>_deserialize(buffer); a struct value is the sequence of its fields
Deserialize(hdr, name, buf, ub) ==
    IF name = "bool" THEN BoolDeserialize(buf)
    ELSE IF Get(hdr, name).is_enum THEN EnumDeserialize(buf)
    ELSE DeserializeFrom(hdr, Get(hdr, name).reads, 1, buf, <<>>, ub)

\* the statements of a struct's deserialize routine, from statement i on
DeserializeFrom(hdr, reads, i, buf, self, ub) ==
    IF i > Len(reads) THEN self
    ELSE LET r == Read(buf, reads[i].bits, ub)
             value == IF reads[i].kind = "signal"
                      THEN SignalDecode(reads[i], r.res)
                      ELSE Deserialize(hdr, reads[i].typ, r.res, ub)
         IN  DeserializeFrom(hdr, reads, i + 1, r.buffer, Append(self, value), ub)

FieldIndex(reads, name) == CHOOSE j \in 1..Len(reads) : reads[j].name = name

RECURSIVE Serialize(_, _, _)
RECURSIVE SerializeFrom(_, _, _, _, _)
\* serialize(data)
Serialize(hdr, name, value) ==
    IF name = "bool" THEN BoolSerialize(value)
    ELSE IF Get(hdr, name).is_enum THEN EnumSerialize(value)
    ELSE SerializeFrom(hdr, Get(hdr, name), 1, {}, value)

\* the statements of a struct's serialize routine, from statement i on
SerializeFrom(hdr, type, i, acc, value) ==
    IF i > Len(type.writes) THEN acc
    ELSE LET w == type.writes[i]
             field == value[FieldIndex(type.reads, w.name)]
             bdata == IF w.kind = "signal"
                      THEN SignalEncode(w, field)
                      ELSE Serialize(hdr, w.typ, field)
         IN  SerializeFrom(hdr, type, i + 1, Write(acc, w.bits, bdata), value)

\* a program decodes a packed value
Decode ==
    /\ cpc = "start"
    /\ decoded' = Deserialize(header, "M", input, shift_ub)
    /\ cpc' = "decoded"
    /\ UNCHANGED <<header, shift_ub, input, encoded, redecoded>>
    /\ UNCHANGED genvars

\* encodes the record again
Encode ==
    /\ cpc = "decoded"
    /\ encoded' = Serialize(header, "M", decoded)
    /\ cpc' = "encoded"
    /\ UNCHANGED <<header, shift_ub, input, decoded, redecoded>>
    /\ UNCHANGED genvars

\* and decodes what it encoded
Redecode ==
    /\ cpc = "encoded"
    /\ redecoded' = Deserialize(header, "M", encoded, shift_ub)
    /\ cpc' = "redecoded"
    /\ UNCHANGED <<header, shift_ub, input, decoded, encoded>>
    /\ UNCHANGED genvars

NextCodec ==
    \/ Decode
    \/ Encode
    \/ Redecode

(***************************************************************************)
(* The inputs of the codec: schemas, and packed values for their message.  *)
(***************************************************************************)
\* members per generated message body
MaxCodecMembers == 2

\* messages up to this width are decoded from every packed value
ExhaustiveBits == 5

\* In is 32 bits wide
CodecStructs ==
    <<Entry("P", YList(<<Mem(<<"x">>, Sig4), Mem(<<"y">>, Sig8)>>)),
      Entry("E", YEnum(Labels(EnumLabels))),
      Entry("In", YList(<<Mem(<<"p">>, Sig8), Mem(<<"q">>, Sig8),
                          Mem(<<"r">>, Sig8), Mem(<<"s">>, Sig8)>>))>>

CodecMembers ==
    {Mem(<<"a">>, Sig8), Mem(<<"b">>, Sig4), Mem(<<"f">>, YStr("bool")),
     Mem(<<"e">>, YStr("E")), Mem(<<"p">>, YStr("P")), Mem(<<"i">>, YStr("In"))}

CodecDatabases ==
    {[structs |-> CodecStructs, messages |-> <<Entry("M", YList(m))>>] :
        m \in {q \in SeqsUpTo(CodecMembers, MaxCodecMembers) :
                  /\ Len(q) > 0
                  /\ \A i, j \in 1..Len(q) : i # j => q[i].name # q[j].name}}

\* the header database_to_cpp writes for a schema, as a dictionary; the
\* structs of these schemas refer to nothing, so the keys are in sorted order
HeaderOf(db) ==
    LET defs == LoadStructDefs(db).defs
        emitted == EmitTypes(Keys(defs), defs, 1, <<>>).types
    IN  [i \in 1..Len(emitted) |-> Entry(emitted[i].name, emitted[i])]

RECURSIVE SumBits(_, _)
SumBits(stmts, i) == IF i > Len(stmts) THEN 0 ELSE stmts[i].bits + SumBits(stmts, i + 1)

\* the packed values tried for a message w bits wide
PackedValues(w) ==
    {0..(k - 1) : k \in 0..w} \cup {{i} : i \in 0..(w - 1)}
        \cup (IF w <= ExhaustiveBits THEN SUBSET (0..(w - 1)) ELSE {})

\* a run with --hpp has finished and written the header; a program that
\* includes it is about to decode a packed value
InitCodec ==
    /\ database \in CodecDatabases
    /\ args = [kcd |-> FALSE, hpp |-> TRUE]
    /\ pc = "done"
    /\ err = ""
    /\ kcd_file = Untouched
    /\ struct_defs = LoadStructDefs(database).defs
    /\ nodes_idx = Len(struct_defs) + 1
    /\ result = Keys(struct_defs)
    /\ stack = <<>>
    /\ header = HeaderOf(database)
    /\ out = [discriminator |-> MessageDiscriminator(database),
              types |-> [i \in 1..Len(header) |-> header[i].v]]
    /\ hpp_file = Written(out)
    /\ shift_ub \in {"wrap", "zero"}
    /\ input \in PackedValues(SumBits(Get(header, "M").reads, 1))
    /\ decoded = <<>>
    /\ encoded = {}
    /\ redecoded = <<>>
    /\ cpc = "start"

SpecCodec == InitCodec /\ [][NextCodec]_vars

(***************************************************************************)
(* C3.                                                                     *)
(***************************************************************************)
\* C3: decoding a packed value and encoding the record gives the packed
\* value back, and decoding what was encoded gives the same record.
C3_RoundTrip ==
    /\ cpc \in {"encoded", "redecoded"} => encoded = input
    /\ cpc = "redecoded" => redecoded = decoded

(***************************************************************************)
(* Well-formed schemas, and the definition map of the run.                 *)
(***************************************************************************)
\* the merged definition map both emitters build from the input
Loaded == LoadStructDefs(database)

\* every definition is a member list or an enum with a label, every signal
\* has a width, the references resolve and form no cycle, and no
\* definition takes the name 'bool'
WellFormed(defs) ==
    /\ Acyclic(defs)
    /\ Resolved(defs)
    /\ "bool" \notin Names(defs)
    /\ \A n \in Names(defs) :
           /\ Get(defs, n).is_enum => Len(Get(defs, n).enum_members) >= 1
           /\ \A i \in 1..Len(Get(defs, n).struct_members) :
                  LET member == Get(defs, n).struct_members[i][2]
                  IN  member.is_signal => member.size >= 1

WellFormedRun == Loaded.err = "" /\ WellFormed(Loaded.defs)

(***************************************************************************)
(* C4.                                                                     *)
(***************************************************************************)
RECURSIVE SizeRule(_, _)
RECURSIVE SizeRuleMembers(_, _, _)
\* the recursive size rule: an enum of N labels takes ceil(log2 N) bits, a
\* struct the sum over its members of the signal's width, 1 for 'bool' and
\* the size of the referenced type
SizeRule(defs, n) ==
    IF Get(defs, n).is_enum THEN CeilLog2(Len(Get(defs, n).enum_members))
    ELSE SizeRuleMembers(defs, Get(defs, n).struct_members, 1)

SizeRuleMembers(defs, members, i) ==
    IF i > Len(members) THEN 0
    ELSE (IF members[i][2].is_signal THEN members[i][2].size
          ELSE IF members[i][2].name = "bool" THEN 1
          ELSE SizeRule(defs, members[i][2].name))
         + SizeRuleMembers(defs, members, i + 1)

\* C4: once database_to_cpp holds the definition map of a well-formed
\* acyclic schema, CANStruct.size of every type of the map returns the value
\* of the recursive size rule, a 'bool' member counting 1.
C4_SizeFollowsRule ==
    (pc \in {"sort", "done", "raised"} /\ struct_defs # <<>> /\ WellFormed(struct_defs)) =>
        \A n \in Names(struct_defs) :
            Size(Get(struct_defs, n), struct_defs, 1)
                = [err |-> "", v |-> SizeRule(struct_defs, n)]

(***************************************************************************)
(* C5.                                                                     *)
(***************************************************************************)
RECURSIVE SumLengths(_, _)
\* the sum of the length attributes of the Signal nodes from node i on
SumLengths(children, i) ==
    IF i > Len(children) THEN 0
    ELSE children[i].length + SumLengths(children, i + 1)

\* C5: in the written descriptor of a well-formed acyclic schema the lengths
\* of the Signal nodes of every Message node sum to CANStruct.size of that
\* message over the same definition map.
C5_LengthsSumToSize ==
    (kcd_file.state = "written" /\ WellFormedRun) =>
        \A i \in 1..Len(kcd_file.content) :
            Size(Get(Loaded.defs, kcd_file.content[i].name), Loaded.defs, 1)
                = [err |-> "", v |-> SumLengths(kcd_file.content[i].children, 1)]

(***************************************************************************)
(* C6.                                                                     *)
(***************************************************************************)
\* C6: the written descriptor has one Message node per name of the messages
\* section, in declaration order, whose id is the name's zero-based
\* position; the written MessageDiscriminator gives every name that same
\* position; so wherever both artifacts are written the two numbers of a
\* message agree.
C6_MessageIdsAgree ==
    LET names == Keys(database.messages)
    IN  /\ kcd_file.state = "written" =>
               /\ Len(kcd_file.content) = Len(names)
               /\ \A i \in 1..Len(names) :
                      /\ kcd_file.content[i].name = names[i]
                      /\ kcd_file.content[i].id = Str(i - 1)
        /\ hpp_file.state = "written" =>
               /\ Len(hpp_file.content.discriminator) = Len(names)
               /\ \A i \in 1..Len(names) :
                      /\ hpp_file.content.discriminator[i].name = names[i]
                      /\ hpp_file.content.discriminator[i].value = Str(i - 1)
        /\ (kcd_file.state = "written" /\ hpp_file.state = "written") =>
               \A i \in 1..Len(kcd_file.content) :
                   \A j \in 1..Len(hpp_file.content.discriminator) :
                       kcd_file.content[i].name = hpp_file.content.discriminator[j].name
                           => kcd_file.content[i].id = hpp_file.content.discriminator[j].value

\* C6 witness: both artifacts are written for the messages Pong, Ping, Pang
\* declared in that order beside a struct named Pong; Ping is 1 in both
C6_Witness ==
    /\ pc = "done"
    /\ Keys(database.messages) = <<"Pong", "Ping", "Pang">>
    /\ kcd_file.state = "written"
    /\ hpp_file.state = "written"
    /\ kcd_file.content[2].name = "Ping"
    /\ kcd_file.content[2].id = <<"1">>
    /\ hpp_file.content.discriminator[2] = [name |-> "Ping", value |-> <<"1">>]

(***************************************************************************)
(* C7.                                                                     *)
(***************************************************************************)
\* C7: a run that asked for both artifacts ends with both files written or
\* with neither output path touched.
C7_NoPartialOutput ==
    (args.kcd /\ args.hpp /\ pc \in {"done", "raised"}) =>
        \/ kcd_file.state = "written" /\ hpp_file.state = "written"
        \/ kcd_file = Untouched /\ hpp_file = Untouched

(***************************************************************************)
(* C8.                                                                     *)
(***************************************************************************)
\* C8: when a member of the schema names a type, other than 'bool', that the
\* merged definition map lacks, no artifact is written, the run ends with
\* the semantic error, and the name is never placed in the dependency order
\* nor emitted as a type.
C8_UnresolvedReferenceRejected ==
    (Loaded.err = "" /\ ~Resolved(Loaded.defs)) =>
        /\ kcd_file.state # "written"
        /\ hpp_file.state # "written"
        /\ pc # "done"
        /\ pc = "raised" => err = "CANSemanticException"
        /\ Range(result) \subseteq Names(Loaded.defs)
        /\ Range(TypeNames(out.types)) \subseteq Names(Loaded.defs)

(***************************************************************************)
(* C9.                                                                     *)
(***************************************************************************)
RECURSIVE LengthsBefore(_, _)
\* the sum of the length attributes of the Signal nodes before node i
LengthsBefore(children, i) ==
    IF i <= 1 THEN 0
    ELSE children[i - 1].length + LengthsBefore(children, i - 1)

\* C9: in every Message node of the written descriptor the offset of each
\* Signal node is the sum of the lengths of the Signal nodes before it in
\* that message: the first is at 0 in every message, and the bit ranges of
\* the nodes follow one another without gap or overlap.
C9_OffsetsAreCumulative ==
    kcd_file.state = "written" =>
        \A m \in 1..Len(kcd_file.content) :
            LET children == kcd_file.content[m].children
            IN  \A i \in 1..Len(children) :
                    /\ children[i].offset = LengthsBefore(children, i)
                    /\ i = 1 => children[i].offset = 0
                    /\ i > 1 => children[i].offset
                                    = children[i - 1].offset + children[i - 1].length

\* C9 witness: the descriptor is written for M: [q: Q, f: bool] and N: [q: Q];
\* M's leaves q_p_x, q_p_y, q_e, f lie at 0, 4, 12, 14 and N starts at 0 again
C9_Witness ==
    /\ kcd_file.state = "written"
    /\ Len(kcd_file.content) = 2
    /\ [i \in 1..Len(kcd_file.content[1].children) |->
           <<kcd_file.content[1].children[i].offset,
             kcd_file.content[1].children[i].length>>]
         = <<(<<0, 4>>), (<<4, 8>>), (<<12, 2>>), (<<14, 1>>)>>
    /\ kcd_file.content[2].children[1].offset = 0
    /\ Len(kcd_file.content[2].children) = 3

(***************************************************************************)
(* C10.                                                                    *)
(***************************************************************************)
RECURSIVE PathNames(_, _, _, _)
\* the names f_1 + '_' + ... + '_' + f_k of the leaves below the members of
\* type n from member i on, in declared pre-order; prefix holds the fields
\* walked so far, each followed by '_'
PathNames(defs, n, i, prefix) ==
    LET members == Get(defs, n).struct_members
    IN  IF i > Len(members) THEN <<>>
        ELSE LET name == prefix \o members[i][1]
                 typ == members[i][2]
             IN  (IF typ.is_signal \/ typ.name = "bool" \/ Get(defs, typ.name).is_enum
                  THEN <<name>>
                  ELSE PathNames(defs, typ.name, 1, name \o <<"_">>))
                 \o PathNames(defs, n, i + 1, prefix)

\* C10: in the written descriptor of a well-formed acyclic schema the Signal
\* nodes of every message that is a member list are named, in order, by the
\* field paths of its leaves joined with '_', an enum leaf like any other.
C10_LeafNamesArePaths ==
    (kcd_file.state = "written" /\ WellFormedRun) =>
        \A m \in 1..Len(kcd_file.content) :
            ~Get(Loaded.defs, kcd_file.content[m].name).is_enum =>
                [i \in 1..Len(kcd_file.content[m].children) |->
                    kcd_file.content[m].children[i].name]
                  = PathNames(Loaded.defs, kcd_file.content[m].name, 1, <<>>)

(***************************************************************************)
(* C11.                                                                    *)
(***************************************************************************)
\* the bits [offset, offset + length) of a uint64_t, counted from bit 0
Slice(buf, offset, length) ==
    {j - offset : j \in {k \in buf : k >= offset /\ k < offset + length}}

RECURSIVE CppLeaves(_, _, _, _)
\* the leaf fields of a record of struct type `name`, from field i on, in
\* declared pre-order: each with the statement that reads it and its value
CppLeaves(hdr, name, value, i) ==
    LET reads == Get(hdr, name).reads
    IN  IF i > Len(reads) THEN <<>>
        ELSE (IF reads[i].kind = "ref" /\ ~Get(hdr, reads[i].typ).is_enum
              THEN CppLeaves(hdr, reads[i].typ, value[i], 1)
              ELSE <<[stmt |-> reads[i], value |-> value[i]]>>)
             \o CppLeaves(hdr, name, value, i + 1)

\* the Signal nodes database_to_kcd emits for the message M of the schema
DescriptorLeaves == DatabaseToKcd(database).messages[1].children

\* the value the decode routine's leaf statement makes of the raw bits
LeafDecode(stmt, raw) ==
    IF stmt.kind = "signal" THEN SignalDecode(stmt, raw)
    ELSE IF stmt.kind = "bool" THEN BoolDeserialize(raw)
    ELSE EnumDeserialize(raw)

\* the raw bits the encode routine's leaf statement makes of the value
LeafEncode(stmt, value) ==
    IF stmt.kind = "signal" THEN SignalEncode(stmt, value)
    ELSE IF stmt.kind = "bool" THEN BoolSerialize(value)
    ELSE EnumSerialize(value)

\* C11: the descriptor and the codec agree on the bit layout: the record of a
\* message has as many leaf fields as the descriptor has Signal nodes, the
\* decode routine gives the i-th leaf the value of the bits
\* [offset, offset + length) of the packed value, and the encode routine
\* places the i-th leaf's raw value in those bits, offset and length being
\* those of the i-th Signal node.
C11_LayoutsAgree ==
    cpc \in {"decoded", "encoded", "redecoded"} =>
        LET leaves == CppLeaves(header, "M", decoded, 1)
        IN  /\ Len(leaves) = Len(DescriptorLeaves)
            /\ \A i \in 1..Len(leaves) :
                   LET node == DescriptorLeaves[i]
                   IN  /\ node.length = leaves[i].stmt.bits
                       /\ leaves[i].value
                              = LeafDecode(leaves[i].stmt,
                                           Slice(input, node.offset, node.length))
                       /\ cpc \in {"encoded", "redecoded"} =>
                              Slice(encoded, node.offset, node.length)
                                  = LeafEncode(leaves[i].stmt, leaves[i].value)

====
